---- MODULE Spec2Model ----
(***************************************************************************)
(* Model of the CommitOffsets processing strategy of rust_arroyo           *)
(* (processing/strategies/commit_offsets.rs): a map of pending offsets per *)
(* partition that is snapshotted into a CommitRequest by poll() when the   *)
(* commit frequency has elapsed, and by join() unconditionally.            *)
(***************************************************************************)
EXTENDS Integers, Sequences, FiniteSets, TLC

\* ---------------------------------------------------------------- bounds
MaxNow == 2          \* largest wall-clock reading the model explores
MaxFreq == 1         \* largest "ordinary" commit frequency
MaxOffset == 2       \* committable offsets are 1..MaxOffset
HistLen == 2         \* submits remembered per partition (history window)
MaxPairs == 2        \* (partition, offset) pairs one message yields

\* ------------------------------------------------------------ value sets
\* Partition { topic, index }: two partitions of one topic, as in test_noop
Partitions == {"p0", "p1"}
Offsets == 1..MaxOffset

\* Largest SystemTime the platform can represent (scaled down); every clock
\* reading is below it, a sum beyond it makes checked_add return None.
TimeMax == MaxNow + 1
NoTime == -1

\* Durations handed to new(): ordinary ones, one that overflows as soon as
\* last_commit_time > 0, and one that always overflows (Duration::MAX).
Freqs == (0..MaxFreq) \cup {TimeMax, TimeMax + 1}

\* What message.committable() yields to the loop of submit(): a sequence
\* of (partition, offset) pairs.
Committables ==
    UNION {[1..n -> Partitions \X Offsets] : n \in 0..MaxPairs}

EmptyMap == [p \in {} |-> 0]

\* Results of the calls
RetUnit == [kind |-> "Unit", positions |-> EmptyMap]
RetOk == [kind |-> "Ok", positions |-> EmptyMap]
RetRejected == [kind |-> "Rejected", positions |-> EmptyMap]
RetNone == [kind |-> "None", positions |-> EmptyMap]
RetPanic == [kind |-> "Panic", positions |-> EmptyMap]
RetSome(m) == [kind |-> "Some", positions |-> m]

VARIABLES
    partitions,        \* self.partitions: HashMap<Partition, u64>
    last_commit_time,  \* self.last_commit_time
    commit_frequency,  \* self.commit_frequency
    now,               \* the wall clock, SystemTime::now()
    ret,               \* what the last call returned (or that it panicked)
    op,                \* the last call made by the driver
    subs,              \* history: offsets submitted per partition for the
                       \* current batch, the latest HistLen of them, oldest
                       \* first; while the last call is a flush, the batch
                       \* that flush returned
    polled,            \* history: poll() has been called on the stage
    before             \* history: the partitions of that batch whose offset
                       \* was submitted before a close() / a terminate() call

vars == <<partitions, last_commit_time, commit_frequency, now, ret, op,
          subs, before, polled>>

\* ------------------------------------------------------- pure operations
\* SystemTime::checked_add
checked_add(t, d) == IF t + d > TimeMax THEN NoTime ELSE t + d

\* HashMap::insert: overwrite or add
insert_keep_old(m, p, o) ==
    [q \in DOMAIN m \cup {p} |-> IF q \in DOMAIN m THEN m[q] ELSE o]

insert_max(m, p, o) ==
    [q \in DOMAIN m \cup {p} |->
        IF q = p THEN (IF p \in DOMAIN m /\ m[p] > o THEN m[p] ELSE o)
        ELSE m[q]]

insert_fresh(m, p, o) == [q \in {p} |-> o]

insert(m, p, o) ==
    [q \in DOMAIN m \cup {p} |-> IF q = p THEN o ELSE m[q]]

\* the loop of submit(): one insert per committable pair
RECURSIVE insert_all(_, _)
insert_all(m, c) ==
    IF c = <<>> THEN m
    ELSE insert_all(insert(m, Head(c)[1], Head(c)[2]), Tail(c))

\* submit() returns Ok(()) whatever the state
submit_result_bounded(m) ==
    IF Cardinality(DOMAIN m) >= Cardinality(Partitions)
    THEN RetRejected ELSE RetOk

submit_result(m) == RetOk

\* HashMap::clear
clear_nothing(m) == m

clear(m) == EmptyMap

\* the condition of commit(): Panics when checked_add(...).unwrap() fails,
\* which is evaluated before `|| force`.
commit_panics(last, freq) == checked_add(last, freq) = NoTime

commit_due_ge(t, last, freq, force) ==
    t >= checked_add(last, freq) \/ force

commit_due_nonzero(t, last, freq, force) ==
    (freq > 0 /\ t > checked_add(last, freq)) \/ force

commit_due_forced_only(t, last, freq, force) == force

commit_due(t, last, freq, force) ==
    t > checked_add(last, freq) \/ force

\* HashMap::is_empty
is_empty_never(m) == FALSE

is_empty(m) == m = EmptyMap

\* ---------------------------------------------------------------- history
Remember(h, o) ==
    LET s == Append(h, o)
    IN IF Len(s) > HistLen THEN Tail(s) ELSE s

\* the history after the pairs of one message, in the order of the loop
RECURSIVE RememberAll(_, _)
RememberAll(h, c) ==
    IF c = <<>> THEN h
    ELSE RememberAll([h EXCEPT ![Head(c)[1]] = Remember(@, Head(c)[2])],
                     Tail(c))

Touched(c) == {c[i][1] : i \in DOMAIN c}

NoSubs == [p \in Partitions |-> <<>>]
NoneBefore == [close |-> {}, terminate |-> {}]

\* the last call was a poll() or join() that returned a commit request
Flushed == op \in {"poll", "join"} /\ ret.kind = "Some"

\* the history of the batch that is pending now
CurSubs == IF Flushed THEN NoSubs ELSE subs
CurBefore == IF Flushed THEN NoneBefore ELSE before

SubmittedSince == {p \in Partitions : CurSubs[p] # <<>>}
LastSubmitted(p) == subs[p][Len(subs[p])]

alive == ret.kind # "Panic"

\* ------------------------------------------------------------------ Init
\* new(commit_frequency): the clock reads 0 or 1 at construction (with
\* commit_frequency = TimeMax the sum is representable only from 0)
Init ==
    /\ commit_frequency \in Freqs
    /\ now \in 0..1
    /\ last_commit_time = now
    /\ partitions = EmptyMap
    /\ ret = RetUnit
    /\ op = "new"
    /\ subs = NoSubs
    /\ before = NoneBefore
    /\ polled = FALSE

\* --------------------------------------------------------------- actions
\* submit(message)
Submit ==
    /\ alive
    /\ \E c \in Committables :
        /\ partitions' = insert_all(partitions, c)
        /\ subs' = RememberAll(CurSubs, c)
        /\ before' = [close |-> CurBefore.close \ Touched(c),
                       terminate |-> CurBefore.terminate \ Touched(c)]
    /\ ret' = submit_result(partitions)
    /\ op' = "submit"
    /\ UNCHANGED <<last_commit_time, commit_frequency, now, polled>>

\* commit(force)
commit_rearms(force, name) ==
    /\ alive
    /\ op' = name
    /\ IF commit_panics(last_commit_time, commit_frequency)
       THEN /\ ret' = RetPanic
            /\ subs' = CurSubs
            /\ before' = CurBefore
            /\ UNCHANGED <<partitions, last_commit_time, now>>
       ELSE IF commit_due(now, last_commit_time, commit_frequency, force)
       THEN /\ ret' = IF is_empty(partitions) THEN RetNone
                       ELSE RetSome(partitions)
            /\ partitions' = clear(partitions)
            /\ \E t2 \in {t \in {now, now + 1} : t <= MaxNow} :
                  /\ last_commit_time' = t2
                  /\ now' = t2
            /\ subs' = IF is_empty(partitions) THEN CurSubs ELSE subs
            /\ before' = IF is_empty(partitions) THEN CurBefore ELSE before
       ELSE /\ ret' = RetNone
            /\ subs' = CurSubs
            /\ before' = CurBefore
            /\ UNCHANGED <<partitions, last_commit_time, now>>
    /\ UNCHANGED commit_frequency

commit(force, name) ==
    /\ alive
    /\ op' = name
    /\ IF commit_panics(last_commit_time, commit_frequency)
       THEN /\ ret' = RetPanic
            /\ subs' = CurSubs
            /\ before' = CurBefore
            /\ UNCHANGED <<partitions, last_commit_time, now>>
       ELSE IF commit_due(now, last_commit_time, commit_frequency, force)
               /\ ~is_empty(partitions)
       THEN /\ ret' = RetSome(partitions)
            /\ partitions' = clear(partitions)
            \* the second SystemTime::now() may read a later time
            /\ \E t2 \in {t \in {now, now + 1} : t <= MaxNow} :
                  /\ last_commit_time' = t2
                  /\ now' = t2
            /\ UNCHANGED <<subs, before>>
       ELSE /\ ret' = RetNone
            /\ subs' = CurSubs
            /\ before' = CurBefore
            /\ UNCHANGED <<partitions, last_commit_time, now>>
    /\ UNCHANGED commit_frequency

\* poll()
Poll == commit(FALSE, "poll") /\ polled' = TRUE

\* join(timeout): the timeout is ignored
Join == commit(TRUE, "join") /\ UNCHANGED polled

\* close()
CloseFlushes ==
    /\ alive
    /\ ret' = RetUnit
    /\ op' = "close"
    /\ partitions' = EmptyMap
    /\ before' = [CurBefore EXCEPT !.close = DOMAIN partitions]
    /\ subs' = CurSubs
    /\ UNCHANGED <<last_commit_time, commit_frequency, now, polled>>

Close ==
    /\ alive
    /\ ret' = RetUnit
    /\ op' = "close"
    /\ before' = [CurBefore EXCEPT !.close = DOMAIN partitions]
    /\ subs' = CurSubs
    /\ UNCHANGED <<partitions, last_commit_time, commit_frequency, now,
                   polled>>

\* terminate()
TerminateDiscards ==
    /\ alive
    /\ ret' = RetUnit
    /\ op' = "terminate"
    /\ before' = [CurBefore EXCEPT !.terminate = DOMAIN partitions]
    /\ subs' = CurSubs
    /\ partitions' = EmptyMap
    /\ UNCHANGED <<last_commit_time, commit_frequency, now, polled>>

Terminate ==
    /\ alive
    /\ ret' = RetUnit
    /\ op' = "terminate"
    /\ before' = [CurBefore EXCEPT !.terminate = DOMAIN partitions]
    /\ subs' = CurSubs
    /\ UNCHANGED <<partitions, last_commit_time, commit_frequency, now,
                   polled>>

\* the wall clock advances between calls
Tick ==
    /\ alive
    /\ now < MaxNow
    /\ now' = now + 1
    /\ UNCHANGED <<partitions, last_commit_time, commit_frequency, ret, op,
                   subs, before, polled>>

\* the wall clock is set back (SystemTime is not monotonic)
ClockBack ==
    /\ alive
    /\ \E t \in 0..(now - 1) : now' = t
    /\ UNCHANGED <<partitions, last_commit_time, commit_frequency, ret, op,
                   subs, before, polled>>

Next ==
    \/ Submit
    \/ Poll
    \/ Join
    \/ Close
    \/ Terminate
    \/ Tick
    \/ ClockBack

Spec == Init /\ [][Next]_vars

TypeOK ==
    /\ DOMAIN partitions \subseteq Partitions
    /\ \A p \in DOMAIN partitions : partitions[p] \in Offsets
    /\ last_commit_time \in 0..MaxNow
    /\ now \in 0..MaxNow
    /\ commit_frequency \in Freqs
    /\ op \in {"new", "submit", "poll", "join", "close", "terminate"}
    /\ polled \in BOOLEAN
    /\ CurBefore.close \subseteq DOMAIN partitions
    /\ CurBefore.terminate \subseteq DOMAIN partitions

\* ================================================================ claims

\* C1: a poll() made while the time elapsed since the last flush has not
\* exceeded commit_frequency returns nothing (None), whatever is pending.
C1_PollQuietBeforeFrequency ==
    [][(Poll /\ now - last_commit_time <= commit_frequency)
          => ret' = RetNone]_vars

\* C2: a commit request returned by poll() or join() holds exactly the
\* partitions submitted since the previous flush, each with the offset of
\* the most recent submit for it.
C2_FlushExact ==
    Flushed =>
        /\ DOMAIN ret.positions = {p \in Partitions : subs[p] # <<>>}
        /\ \A p \in DOMAIN ret.positions :
              ret.positions[p] = LastSubmitted(p)

C2_Witness ==
    /\ Flushed
    /\ DOMAIN ret.positions = Partitions
    /\ \E p \in Partitions : Len(subs[p]) >= 2

\* C3: join() returns the whole pending map as a commit request when the
\* map is non-empty, however little time has passed, and nothing when it is
\* empty.
C3_JoinAlwaysFlushes ==
    [][Join => ret' = IF partitions = EmptyMap THEN RetNone
                       ELSE RetSome(partitions)]_vars

\* C4 (as stated): no poll() or join() after terminate() returns an offset
\* that was submitted before the terminate() call.
C4_TerminateDiscardsPending ==
    Flushed => before.terminate = {}

\* C4 (amended): terminate() discards nothing; an offset pending at
\* terminate() and not superseded by a later submit is part of the next
\* commit request that poll() or join() returns.
C4_TerminateKeepsPending ==
    Flushed =>
        \A p \in before.terminate :
            /\ p \in DOMAIN ret.positions
            /\ ret.positions[p] = LastSubmitted(p)

C4_Witness ==
    /\ Flushed
    /\ before.terminate # {}

\* C5: poll() and join() never panic, whatever commit_frequency is; when
\* last_commit_time + commit_frequency is not representable poll() returns
\* nothing and join() still flushes.
C5_LargeFrequencySaturates ==
    [][(Poll \/ Join) =>
          /\ ret'.kind # "Panic"
          /\ (last_commit_time + commit_frequency > TimeMax =>
                /\ (Poll => ret' = RetNone)
                /\ (Join /\ partitions # EmptyMap
                      => ret' = RetSome(partitions)))]_vars

\* C6: when a partition was submitted twice or more with no flush between,
\* the pending map, and the commit request the next flush returns, hold the
\* offset of the later submit, be it higher, equal or lower.
C6_LastWriteWins ==
    \A p \in Partitions :
        Len(subs[p]) >= 2 =>
            IF Flushed
            THEN p \in DOMAIN ret.positions
                 /\ ret.positions[p] = LastSubmitted(p)
            ELSE p \in DOMAIN partitions
                 /\ partitions[p] = LastSubmitted(p)

C6_Witness ==
    /\ Flushed
    /\ \E p \in Partitions :
          /\ Len(subs[p]) >= 2
          /\ subs[p][Len(subs[p]) - 1] > subs[p][Len(subs[p])]
          /\ ret.positions[p] = subs[p][Len(subs[p])]

\* C7: submit() returns Ok, never Rejected, in every state.
C7_SubmitNeverRejects ==
    op = "submit" => ret = RetOk

C7_Witness ==
    /\ op = "submit"
    /\ before.close # {}
    /\ before.terminate # {}
    /\ DOMAIN partitions = Partitions
    /\ \A p \in Partitions : Len(subs[p]) = HistLen

\* C8: right after a poll() or join() that returned a commit request the
\* pending map is empty, and a poll() or join() made next, with no submit
\* in between, returns nothing.
C8_FlushedNotEmittedTwice ==
    [][/\ (Flushed' => partitions' = EmptyMap)
       /\ (Flushed /\ (Poll \/ Join) => ret' = RetNone)]_vars

\* C9: the pending map never has more entries than there are distinct
\* partitions submitted since the last flush.
C9_PendingBounded ==
    /\ Cardinality(DOMAIN partitions) <= Cardinality(SubmittedSince)
    /\ Cardinality(SubmittedSince) <= Cardinality(Partitions)

C9_Witness ==
    /\ op = "submit"
    /\ DOMAIN partitions = {"p0"}
    /\ Len(subs["p0"]) = HistLen

\* C10: close() and terminate() return nothing and leave the pending map,
\* the last-flush time and the frequency alone; what was pending at close()
\* is returned by the next flush.
C10_CloseTerminateNoOp ==
    [][/\ (Close \/ Terminate) =>
             /\ UNCHANGED <<partitions, last_commit_time, commit_frequency>>
             /\ ret' = RetUnit
       /\ Flushed' =>
             \A p \in before'.close :
                 /\ p \in DOMAIN ret'.positions
                 /\ ret'.positions[p] = subs'[p][Len(subs'[p])]]_vars

C10_Witness ==
    /\ Flushed
    /\ op = "poll"
    /\ before.close = Partitions

\* C11: a poll() or join() that returns nothing (None) leaves the pending
\* map and the last-flush time as they were, be the flush not due or the
\* pending map empty.
C11_NoneChangesNothing ==
    [][((Poll \/ Join) /\ ret' = RetNone)
          => UNCHANGED <<partitions, last_commit_time, commit_frequency>>]_vars

C11_Witness ==
    /\ op = "poll"
    /\ ret = RetNone
    /\ partitions = EmptyMap
    /\ now - last_commit_time > commit_frequency
    /\ last_commit_time < now

\* C12: the timer comparison is strict: a poll() at an elapsed time equal
\* to commit_frequency returns nothing and changes no state, and a poll()
\* that flushes has seen more than commit_frequency elapse.
C12_StrictComparison ==
    [][/\ (Poll /\ now - last_commit_time = commit_frequency)
             => /\ ret' = RetNone
                /\ UNCHANGED <<partitions, last_commit_time>>
       /\ (Poll /\ ret'.kind = "Some")
             => now - last_commit_time > commit_frequency]_vars

\* a poll() that found offsets pending and returned None at clock 0 with
\* frequency 0 and last flush 0: it was made at elapsed = frequency
C12_Witness ==
    /\ op = "poll"
    /\ ret = RetNone
    /\ partitions # EmptyMap
    /\ commit_frequency = 0
    /\ last_commit_time = 0
    /\ now = 0

\* C13 (as stated): with commit_frequency zero a poll() that is not the
\* first one made on the stage returns the whole pending map whenever that
\* map is non-empty.
C13_ZeroFrequencyAlwaysFlushes ==
    [][(Poll /\ polled /\ commit_frequency = 0
             /\ partitions # EmptyMap)
          => ret' = RetSome(partitions)]_vars

\* C13 (amended): with commit_frequency zero a poll() that finds offsets
\* pending returns the whole pending map when the clock reads later than
\* the last-flush time, and nothing when it reads that time or an earlier
\* one.
C13_ZeroFrequencyFlushesOnceTimePassed ==
    [][(Poll /\ commit_frequency = 0 /\ partitions # EmptyMap)
          => ret' = IF now > last_commit_time THEN RetSome(partitions)
                    ELSE RetNone]_vars

C13_Witness ==
    /\ op = "poll"
    /\ ret = RetNone
    /\ partitions # EmptyMap
    /\ commit_frequency = 0
    /\ now = last_commit_time

\* the highest offset of a non-empty history
SeqMax(h) == CHOOSE o \in {h[i] : i \in DOMAIN h} :
                 \A i \in DOMAIN h : h[i] <= o

NonDecreasing(h) == \A i, j \in DOMAIN h : i <= j => h[i] <= h[j]

\* C14 (as stated): the pending offset of a partition is the highest offset
\* submitted for it since the last flush.
C14_PendingIsHighest ==
    \A p \in SubmittedSince :
        /\ p \in DOMAIN partitions
        /\ partitions[p] = SeqMax(CurSubs[p])

\* C14 (amended): the pending offset of a partition is the offset of the
\* most recent submit for it since the last flush, which is the highest one
\* when the offsets came in non-decreasing order.
C14_PendingIsLatest ==
    /\ DOMAIN partitions = SubmittedSince
    /\ \A p \in SubmittedSince :
          /\ partitions[p] = CurSubs[p][Len(CurSubs[p])]
          /\ NonDecreasing(CurSubs[p]) => partitions[p] = SeqMax(CurSubs[p])

C14_Witness ==
    /\ ~Flushed
    /\ \E p \in DOMAIN partitions :
          /\ Len(subs[p]) >= 2
          /\ subs[p][Len(subs[p]) - 1] > subs[p][Len(subs[p])]
          /\ partitions[p] < SeqMax(subs[p])

\* C16: a commit request returned by poll() or join() holds only
\* partitions submitted since the previous flush, and the flush empties the
\* pending map, so the offset of one submit is returned at most once.
C16_EmittedAtMostOnce ==
    [][((Poll \/ Join) /\ ret'.kind = "Some")
          => /\ DOMAIN ret'.positions \subseteq SubmittedSince
             /\ partitions' = EmptyMap]_vars

C16_Witness ==
    /\ Flushed
    /\ DOMAIN ret.positions = {"p1"}
    /\ subs["p0"] = <<>>
    /\ partitions = EmptyMap

\* C17: a commit request returned by poll() or join() is never empty; on
\* an empty pending map both return None.
C17_RequestNotEmpty ==
    /\ ret.kind = "Some" => DOMAIN ret.positions # {}
    /\ (op \in {"poll", "join"} /\ SubmittedSince = {} /\ ~Flushed)
          => ret \in {RetNone, RetPanic}

C17_Witness ==
    /\ op = "join"
    /\ ret = RetNone
    /\ subs = NoSubs
    /\ partitions = EmptyMap

\* a due timer: more than commit_frequency has elapsed since the last flush
TimerDue == now - last_commit_time > commit_frequency

\* a step of submit(): the only call that sets op to "submit"; the clock
\* steps change now and leave op alone
SubmitStep == op' = "submit" /\ now' = now

\* C18: a poll() that finds the pending map empty does not re-arm the
\* timer: a due timer is still due after it and after the submit that
\* follows, and the poll() right after that submit returns the pending map
\* at once.
C18_EmptyPollKeepsTimer ==
    [][/\ (Poll /\ TimerDue /\ partitions = EmptyMap)
             => (ret' = RetNone /\ TimerDue')
       /\ (SubmitStep /\ TimerDue) => TimerDue'
       /\ (Poll /\ TimerDue /\ op = "submit" /\ partitions # EmptyMap)
             => /\ ret' = RetSome(partitions)
                /\ \A p \in SubmittedSince :
                      ret'.positions[p] = LastSubmitted(p)]_vars

C18_Witness ==
    /\ Flushed
    /\ op = "poll"
    /\ polled
    /\ commit_frequency > 0
    /\ Cardinality(DOMAIN ret.positions) = 1
    /\ \A p \in DOMAIN ret.positions : Len(subs[p]) = 1

\* C19: submit() puts the offsets of the message into the pending map in
\* one step, keeps the entries of the partitions whose history the message
\* does not extend, and leaves the last-flush time and the frequency
\* alone, so the timer is due after it exactly if it was due before.
C19_SubmitFrame ==
    [][SubmitStep =>
          /\ UNCHANGED <<last_commit_time, commit_frequency>>
          /\ TimerDue' <=> TimerDue
          /\ \A p \in Partitions :
                IF subs'[p] = CurSubs[p]
                THEN /\ (p \in DOMAIN partitions) <=> (p \in DOMAIN partitions')
                     /\ p \in DOMAIN partitions
                           => partitions'[p] = partitions[p]
                ELSE /\ p \in DOMAIN partitions'
                     /\ partitions'[p] = subs'[p][Len(subs'[p])]]_vars

C19_Witness ==
    /\ op = "submit"
    /\ DOMAIN partitions = Partitions
    /\ subs["p0"] = <<1>>
    /\ Len(subs["p1"]) = HistLen
    /\ now - last_commit_time > commit_frequency

\* ---------------------------------------------------------------- liveness
\* The driver keeps calling poll() and the clock keeps advancing and is
\* never set back.
LiveNext ==
    \/ Submit
    \/ Poll
    \/ Join
    \/ Close
    \/ Terminate
    \/ Tick

LiveSpec == Init /\ [][LiveNext]_vars /\ WF_vars(Tick) /\ WF_vars(Poll)

\* the clock can still pass last_commit_time + commit_frequency, which is
\* then a representable time
DeadlineAhead == last_commit_time + commit_frequency < MaxNow

\* C15: when the clock keeps advancing past the flush deadline and the
\* driver keeps polling, an offset pending for a partition leads to a
\* poll() or join() that returns a commit request with that partition: the
\* offset is emitted, or superseded by a later one that is.
C15_PendingEventuallyFlushed ==
    \A p \in Partitions :
        (p \in DOMAIN partitions /\ DeadlineAhead)
            ~> (Flushed /\ p \in DOMAIN ret.positions)

C15_Witness ==
    /\ Flushed
    /\ op = "poll"
    /\ DOMAIN ret.positions = Partitions
    /\ \A p \in Partitions : Len(subs[p]) = HistLen

====
